---------------------------- MODULE Spec2Model ----------------------------
(***************************************************************************)
(* ConvoEase: the moderation path of the chat prototypes.                  *)
(*                                                                         *)
(*   v1.1  prototype_buildup.py    ContentValidator, ChatManager, app      *)
(*   v1.2  Multimodel_Prototype.py the same validator and ledger, with     *)
(*         image and audio uploads normalised to a text before judging     *)
(*   v1.4  core_processing_engine.py + app.py  (JSON verdict, streaming)   *)
(*   v1.6  app.py + core_processing_engine.py  (one-word verdict)          *)
(*                                                                         *)
(* One action is one Streamlit script run triggered by one user input      *)
(* (Spec, SpecV12, SpecV14, SpecV16); SpecConcurrent steps two callers     *)
(* through the statements of ChatManager.add_message.                      *)
(* Python values that cross the judge boundary are dynamically typed, so   *)
(* they are carried as tagged records (PyNone, PyBool, PyNum, PyStr).      *)
(* Numbers are hundredths: 0.5 is PyNum(50), 1.0 is PyNum(100).            *)
(***************************************************************************)
EXTENDS Integers, Sequences, FiniteSets, TLC

VARIABLES
    app,               \* which program of the repository is running
    api_key,           \* the API key the script run reads
    rules,             \* st.session_state.rules
    chat_manager,      \* st.session_state.chat_manager (v1.1, v1.2, v1.6)
    chat_history,      \* st.session_state.chat_history (v1.4)
    flagged_messages,  \* st.session_state.flagged_messages (v1.4)
    created,           \* ids returned by add_message since the last clear
    sends,             \* non-empty Send presses since the last clear
    last,              \* what the latest script run did (Send, Clear Chat, upload)
    uploaded_image,    \* the file in the "image_uploader" widget (v1.2)
    uploaded_audio,    \* the file in the "audio_uploader" widget (v1.2)
    processing_media,  \* st.session_state.processing_media (v1.2)
    rerun_pending,     \* st.rerun() was called and the next run is due (v1.2)
    threads,           \* callers inside ChatManager.add_message, step by step
    in_flight,         \* the validate_message call waiting for the judge's reply
    noted              \* an earlier validate_message call kept for comparison

media_vars == <<uploaded_image, uploaded_audio, processing_media, rerun_pending>>

\* What the script runs of v1.1, v1.4 and v1.6 never touch.
idle_vars == <<media_vars, threads, in_flight, noted>>

vars == <<app, api_key, rules, chat_manager, chat_history, flagged_messages,
          created, sends, last, media_vars, threads, in_flight, noted>>

---------------------------------------------------------------------------
(* Bounds and input sets *)

MaxMessages == 2

ApiKeys == {"", "gsk"}

\* Saved rule texts: empty, whitespace only, plain, padded.
RuleTexts == {"", " ", "no spam", " no spam\n"}

\* What the user types into the message box ("" = nothing typed).
MessageInputs == {"", "hi"}

DefaultUsername == "User"

---------------------------------------------------------------------------
(* Python values *)

PyNone == [t |-> "None", b |-> FALSE, n |-> 0, s |-> ""]
PyBool(x) == [t |-> "bool", b |-> x, n |-> 0, s |-> ""]
PyNum(x) == [t |-> "num", b |-> FALSE, n |-> x, s |-> ""]
PyStr(x) == [t |-> "str", b |-> FALSE, n |-> 0, s |-> x]

\* bool(v), the test Python applies in `if v` and `A if v else B`.
Truthy(v) ==
    CASE v.t = "None" -> FALSE
      [] v.t = "bool" -> v.b
      [] v.t = "num" -> v.n # 0
      [] v.t = "str" -> v.s # ""

Whitespace == {" ", "\n", "\t"}

RECURSIVE LStrip(_)
LStrip(s) ==
    IF Len(s) = 0 THEN s
    ELSE IF SubSeq(s, 1, 1) \in Whitespace THEN LStrip(SubSeq(s, 2, Len(s)))
    ELSE s

RECURSIVE RStrip(_)
RStrip(s) ==
    IF Len(s) = 0 THEN s
    ELSE IF SubSeq(s, Len(s), Len(s)) \in Whitespace
         THEN RStrip(SubSeq(s, 1, Len(s) - 1))
    ELSE s

\* Mutant: the .strip() is forgotten.
StripNothing(s) == s

\* str.strip()
Strip(s) == RStrip(LStrip(s))

LowerCase == "abcdefghijklmnopqrstuvwxyz"
UpperCase == "ABCDEFGHIJKLMNOPQRSTUVWXYZ"

UpperChar(c) ==
    IF \E i \in 1..Len(LowerCase) : SubSeq(LowerCase, i, i) = c
    THEN LET i == CHOOSE i \in 1..Len(LowerCase) : SubSeq(LowerCase, i, i) = c
         IN  SubSeq(UpperCase, i, i)
    ELSE c

RECURSIVE Upper(_)
\* str.upper()
Upper(s) ==
    IF Len(s) = 0 THEN s
    ELSE IF Len(s) = 1 THEN UpperChar(s)
    ELSE LET half == Len(s) \div 2
         IN  Upper(SubSeq(s, 1, half)) \o Upper(SubSeq(s, half + 1, Len(s)))

\* `x or ""` for a streamed delta.content.
OrEmpty(v) == IF Truthy(v) THEN v.s ELSE ""

RECURSIVE Join(_)
\* "".join(chunk or "" for chunk in chunks)
Join(chunks) ==
    IF chunks = << >> THEN "" ELSE OrEmpty(Head(chunks)) \o Join(Tail(chunks))

---------------------------------------------------------------------------
(* The remote judge, as the validator sees it: the completion call either  *)
(* raises, or returns a message whose content is a text.  json.loads of    *)
(* that text raises JSONDecodeError (not JSON), raises TypeError (content  *)
(* is None), or yields a JSON document: a dict, or a value of another type. *)

Raises(cls, detail) ==
    [raises |-> TRUE, cls |-> cls, detail |-> detail,
     json |-> "none", doc |-> << >>]
Reply(json, doc) ==
    [raises |-> FALSE, cls |-> "", detail |-> "", json |-> json, doc |-> doc]

\* Exceptions the groq client raises; all derive from Exception.
JudgeFailures ==
    { Raises("APIConnectionError", "Connection error."),
      Raises("APITimeoutError", "Request timed out."),
      Raises("APIStatusError", "") }

\* The JSON objects a judge can answer with: complete verdicts, verdicts
\* with fields left out, fields of another type than the prompt asks, and a
\* confidence off the 0..1 scale (1.5).
JudgeObjects ==
    { [valid |-> PyBool(TRUE), reason |-> PyStr("ok"), confidence |-> PyNum(90)],
      [valid |-> PyBool(FALSE), reason |-> PyStr("spam"), confidence |-> PyNum(95)],
      [valid |-> PyBool(FALSE), reason |-> PyStr(""), confidence |-> PyNum(0)],
      [valid |-> PyBool(TRUE), reason |-> PyNone, confidence |-> PyNum(0)],
      [valid |-> PyBool(FALSE), reason |-> PyStr("spam")],
      [reason |-> PyStr("ok"), confidence |-> PyNum(90)],
      [valid |-> PyNone, reason |-> PyStr("unsure"), confidence |-> PyNum(60)],
      [valid |-> PyBool(TRUE), reason |-> PyStr("ok"), confidence |-> PyNum(150)],
      << >> }

JudgeReplies ==
    { Reply("invalid", << >>),          \* text that is not JSON
      Reply("nocontent", << >>),        \* message.content is None
      Reply("list", << >>),             \* JSON, but a list
      Reply("null", << >>) }            \* JSON null
    \cup { Reply("dict", d) : d \in JudgeObjects }

JudgeOutcomes == JudgeFailures \cup JudgeReplies

\* No call was made.
NoOutcome == Reply("none", << >>)

\* The Python type name json.loads gives a non-dict document.
TypeName(json) ==
    CASE json = "list" -> "list"
      [] json = "null" -> "NoneType"
      [] OTHER -> json

\* dict.get(key, default)
Get(d, key, default) == IF key \in DOMAIN d THEN d[key] ELSE default

---------------------------------------------------------------------------
(* ValidationResult, and the outcome of a call: a returned value or an     *)
(* exception that left the function.                                       *)

ValidationResult(is_valid, reason, confidence) ==
    [is_valid |-> is_valid, reason |-> reason, confidence |-> confidence]

NoResult == ValidationResult(PyNone, PyNone, PyNone)

Returned(vr, called) ==
    [raised |-> FALSE, cls |-> "", vr |-> vr, judge_called |-> called]
Propagated(cls, called) ==
    [raised |-> TRUE, cls |-> cls, vr |-> NoResult, judge_called |-> called]

\* The classes `except Exception` catches.
ExceptionSubclasses ==
    {"APIConnectionError", "APITimeoutError", "APIStatusError",
     "JSONDecodeError", "TypeError", "AttributeError"}

\* The try block of validate_message: the completion call, json.loads and
\* the three result.get calls.  An exception is [exc |-> TRUE, ...].
Caught(cls, detail) == [exc |-> TRUE, cls |-> cls, detail |-> detail, vr |-> NoResult]
Completed(vr) == [exc |-> FALSE, cls |-> "", detail |-> "", vr |-> vr]

\* Mutant: a document that is not a dict is read as an empty dict.
JudgeAndParseLenient(outcome) ==
    IF outcome.raises THEN Caught(outcome.cls, outcome.detail)
    ELSE IF outcome.json = "invalid"
         THEN Caught("JSONDecodeError", "Expecting value")
    ELSE LET d == IF outcome.json = "dict" THEN outcome.doc ELSE << >>
         IN  Completed(ValidationResult(
                 Get(d, "valid", PyBool(TRUE)),
                 Get(d, "reason", PyStr("No reason provided")),
                 Get(d, "confidence", PyNum(50))))

JudgeAndParse(outcome) ==
    IF outcome.raises THEN Caught(outcome.cls, outcome.detail)
    ELSE IF outcome.json = "invalid"
         THEN Caught("JSONDecodeError", "Expecting value")
    ELSE IF outcome.json = "nocontent"
         THEN Caught("TypeError", "the JSON object must be str, bytes or bytearray, not NoneType")
    ELSE IF outcome.json # "dict"
         THEN Caught("AttributeError",
                     "'" \o TypeName(outcome.json) \o "' object has no attribute 'get'")
    ELSE Completed(ValidationResult(
             Get(outcome.doc, "valid", PyBool(TRUE)),
             Get(outcome.doc, "reason", PyStr("No reason provided")),
             Get(outcome.doc, "confidence", PyNum(50))))

\* Mutant: only the JSON error is caught; any other exception leaves.
HandleFailureNarrow(e) ==
    IF e.cls = "JSONDecodeError"
    THEN Returned(ValidationResult(PyBool(TRUE),
                      PyStr("Failed to parse validation response"), PyNum(0)), TRUE)
    ELSE Propagated(e.cls, TRUE)

\* The except clauses of validate_message, in their order.
HandleFailure(e) ==
    IF e.cls = "JSONDecodeError"
    THEN Returned(ValidationResult(PyBool(TRUE),
                      PyStr("Failed to parse validation response"), PyNum(0)), TRUE)
    ELSE IF e.cls \in ExceptionSubclasses
    THEN Returned(ValidationResult(PyBool(TRUE),
                      PyStr("Validation error: " \o e.detail), PyNum(0)), TRUE)
    ELSE Propagated(e.cls, TRUE)

NoRulesReason(version) ==
    IF version = "v1.2" THEN "No rules specified - all content allowed"
    ELSE "No rules specified - all messages allowed"

\* Mutant: the empty-rules check is made before the client check.
ValidateMessageRulesFirst(version, client, message, rules_, outcome) ==
    IF Strip(rules_) = ""
    THEN Returned(ValidationResult(PyBool(TRUE),
                      PyStr(NoRulesReason(version)), PyNum(100)), FALSE)
    ELSE IF ~client
    THEN Returned(ValidationResult(PyBool(TRUE),
                      PyStr("No API key configured - defaulting to allow"), PyNum(0)), FALSE)
    ELSE LET r == JudgeAndParse(outcome)
         IN  IF r.exc THEN HandleFailure(r) ELSE Returned(r.vr, TRUE)

\* Mutant: a second message in a row is rejected whatever the judge says.
ValidateMessageLedgerAware(version, client, message, rules_, outcome) ==
    IF ~client
    THEN Returned(ValidationResult(PyBool(TRUE),
                      PyStr("No API key configured - defaulting to allow"), PyNum(0)), FALSE)
    ELSE IF Strip(rules_) = ""
    THEN Returned(ValidationResult(PyBool(TRUE),
                      PyStr(NoRulesReason(version)), PyNum(100)), FALSE)
    ELSE IF Len(chat_manager.messages) > 0
    THEN Returned(ValidationResult(PyBool(FALSE),
                      PyStr("Slow down"), PyNum(100)), TRUE)
    ELSE LET r == JudgeAndParse(outcome)
         IN  IF r.exc THEN HandleFailure(r) ELSE Returned(r.vr, TRUE)

\* ContentValidator.validate_message / validate_text_content.
\* client = FALSE is self.client None.
ValidateMessage(version, client, message, rules_, outcome) ==
    IF ~client
    THEN Returned(ValidationResult(PyBool(TRUE),
                      PyStr("No API key configured - defaulting to allow"), PyNum(0)), FALSE)
    ELSE IF Strip(rules_) = ""
    THEN Returned(ValidationResult(PyBool(TRUE),
                      PyStr(NoRulesReason(version)), PyNum(100)), FALSE)
    ELSE LET r == JudgeAndParse(outcome)
         IN  IF r.exc THEN HandleFailure(r) ELSE Returned(r.vr, TRUE)

\* ContentValidator.__init__: the client exists iff a key was given and the
\* Groq constructor did not raise.
Client(key, init_ok) == key # "" /\ init_ok

---------------------------------------------------------------------------
(* ChatManager / MultimodalChatManager.  A Message is a record; its        *)
(* timestamp (datetime.now()) is wall-clock data no operation reads and is *)
(* left out.  The v1.2 Message also carries message_type, media_content    *)
(* and confidence.                                                         *)

\* MediaContent; file_size (len(file_data)) is derived data and left out.
MediaContent(file_type, file_name, file_data, processed_content) ==
    [file_type |-> file_type, file_name |-> file_name, file_data |-> file_data,
     processed_content |-> processed_content]

\* media_content = None
NoMedia == MediaContent("", "", "", "")

MsgId(n) == "msg_" \o ToString(n)

Status(vr) == IF Truthy(vr.is_valid) THEN "VALID" ELSE "INVALID"

Message(version, id, sender, content, message_type, vr, media_content) ==
    IF version = "v1.2"
    THEN [id |-> id, sender |-> sender, content |-> content,
          status |-> Status(vr), message_type |-> message_type,
          media_content |-> media_content,
          reason |-> vr.reason, confidence |-> vr.confidence]
    ELSE [id |-> id, sender |-> sender, content |-> content,
          status |-> Status(vr), reason |-> vr.reason]

NoMessage == [id |-> "", sender |-> "", content |-> "", status |-> "PENDING",
              reason |-> PyNone]

\* ChatManager.__init__
NewChatManager ==
    [messages |-> << >>, flagged_messages |-> << >>, message_counter |-> 0]

\* Mutant: the `else` is lost; every message is appended to messages and a
\* rejected one to flagged_messages as well.
AddMessageBoth(version, cm, sender, content, message_type, vr, media_content) ==
    LET counter == cm.message_counter + 1
        message == Message(version, MsgId(counter), sender, content, message_type,
                           vr, media_content)
    IN  [cm |-> IF Truthy(vr.is_valid)
                THEN [cm EXCEPT !.message_counter = counter,
                                !.messages = Append(@, message)]
                ELSE [cm EXCEPT !.message_counter = counter,
                                !.messages = Append(@, message),
                                !.flagged_messages = Append(@, message)],
         message |-> message]

\* Mutant: the new message is inserted at the front of its list.
AddMessageAtFront(version, cm, sender, content, message_type, vr, media_content) ==
    LET counter == cm.message_counter + 1
        message == Message(version, MsgId(counter), sender, content, message_type,
                           vr, media_content)
    IN  [cm |-> IF Truthy(vr.is_valid)
                THEN [cm EXCEPT !.message_counter = counter,
                                !.messages = <<message>> \o @]
                ELSE [cm EXCEPT !.message_counter = counter,
                                !.flagged_messages = <<message>> \o @],
         message |-> message]

\* Mutant: the id is taken from the length of the list the message joins.
AddMessageIdFromLength(version, cm, sender, content, message_type, vr, media_content) ==
    LET counter == cm.message_counter + 1
        target == IF Truthy(vr.is_valid) THEN cm.messages ELSE cm.flagged_messages
        message == Message(version, MsgId(Len(target) + 1), sender, content,
                           message_type, vr, media_content)
    IN  [cm |-> IF Truthy(vr.is_valid)
                THEN [cm EXCEPT !.message_counter = counter,
                                !.messages = Append(@, message)]
                ELSE [cm EXCEPT !.message_counter = counter,
                                !.flagged_messages = Append(@, message)],
         message |-> message]

\* ChatManager.add_message: the manager after the call and the Message it returns.
AddMessage(version, cm, sender, content, message_type, vr, media_content) ==
    LET counter == cm.message_counter + 1
        message == Message(version, MsgId(counter), sender, content, message_type,
                           vr, media_content)
    IN  [cm |-> IF Truthy(vr.is_valid)
                THEN [cm EXCEPT !.message_counter = counter,
                                !.messages = Append(@, message)]
                ELSE [cm EXCEPT !.message_counter = counter,
                                !.flagged_messages = Append(@, message)],
         message |-> message]

\* Mutant: the counter is not reset.
ClearChatKeepsCounter(cm) ==
    [cm EXCEPT !.messages = << >>, !.flagged_messages = << >>]

\* ChatManager.clear_chat
ClearChat(cm) ==
    [cm EXCEPT !.messages = << >>, !.flagged_messages = << >>,
               !.message_counter = 0]

---------------------------------------------------------------------------
(* The v1.1 / v1.2 app: ConvoEaseApp.run, one script run per action.       *)

\* A script run in which Send was not pressed (or nothing was typed).
NoRun ==
    [op |-> "none", message |-> "", rules |-> "", client |-> FALSE,
     outcome |-> NoOutcome, call |-> Returned(NoResult, FALSE),
     recorded |-> FALSE, entry |-> NoMessage]

\* A script run in which Clear Chat was pressed; `cleared` is the
\* message_counter clear_chat found.
ClearRun(cleared) == [op |-> "clear", cleared |-> cleared]

\* An empty uploader widget.
NoFile == [name |-> "", size_mb |-> 0, data |-> ""]

\* Nobody is inside add_message.
NoThreads == << >>

\* No validate_message call is waiting for the judge, and none is kept.
NoCall == [active |-> FALSE]

\* setup_session_state and the two uploaders before any upload.
NoMediaSession ==
    /\ uploaded_image = NoFile
    /\ uploaded_audio = NoFile
    /\ processing_media = FALSE
    /\ rerun_pending = FALSE
    /\ threads = NoThreads
    /\ in_flight = NoCall
    /\ noted = NoCall

SendRun(message, rules_, client, outcome, call, recorded, entry) ==
    [op |-> "send", message |-> message, rules |-> rules_, client |-> client,
     outcome |-> IF call.judge_called THEN outcome ELSE NoOutcome,
     call |-> call, recorded |-> recorded, entry |-> entry]

Init ==
    /\ app \in {"v1.1", "v1.2"}
    /\ api_key = ""
    /\ rules = ""
    /\ chat_manager = NewChatManager
    /\ chat_history = << >>
    /\ flagged_messages = << >>
    /\ created = {}
    /\ sends = 0
    /\ last = NoRun
    /\ NoMediaSession

\* render_api_config: the key typed into the sidebar.
SetApiKey(key) ==
    /\ api_key' = key
    /\ last' = NoRun
    /\ UNCHANGED <<idle_vars, app, rules, chat_manager, chat_history, flagged_messages,
                   created, sends>>

\* render_rules_editor: Save Rules pressed with `text` in the text area.
SaveRules(text) ==
    /\ rules' = text
    /\ last' = NoRun
    /\ UNCHANGED <<idle_vars, app, api_key, chat_manager, chat_history, flagged_messages,
                   created, sends>>

\* The Clear Chat button.
ClearChatPressed ==
    /\ app \in {"v1.1", "v1.2"}
    /\ chat_manager' = ClearChat(chat_manager)
    /\ created' = {}
    /\ sends' = 0
    /\ last' = ClearRun(chat_manager.message_counter)
    /\ UNCHANGED <<idle_vars, app, api_key, rules, chat_history, flagged_messages>>

\* The message form: `if send_button and message_input:` validate, record, rerun.
Send(message_input, init_ok, outcome) ==
    /\ app \in {"v1.1", "v1.2"}
    /\ sends < MaxMessages
    /\ IF message_input = ""
       THEN /\ last' = NoRun
            /\ UNCHANGED <<chat_manager, created, sends>>
       ELSE LET client == Client(api_key, init_ok)
                call == ValidateMessage(app, client, message_input, rules, outcome)
                am == AddMessage(app, chat_manager, DefaultUsername,
                                 message_input, "text", call.vr, NoMedia)
            IN  /\ sends' = sends + 1
                /\ IF call.raised
                   THEN /\ last' = SendRun(message_input, rules, client, outcome,
                                           call, FALSE, NoMessage)
                        /\ UNCHANGED <<chat_manager, created>>
                   ELSE /\ chat_manager' = am.cm
                        /\ created' = created \cup {am.message.id}
                        /\ last' = SendRun(message_input, rules, client, outcome,
                                           call, TRUE, am.message)
    /\ UNCHANGED <<idle_vars, app, api_key, rules, chat_history, flagged_messages>>

Next ==
    \/ \E key \in ApiKeys : SetApiKey(key)
    \/ \E text \in RuleTexts : SaveRules(text)
    \/ ClearChatPressed
    \/ \E m \in MessageInputs, init_ok \in BOOLEAN, o \in JudgeOutcomes :
           Send(m, init_ok, o)

Spec == Init /\ [][Next]_vars

---------------------------------------------------------------------------
(* Properties of the v1.1 / v1.2 validator and ledger, checked under Spec. *)

Ids(seq) == {seq[i].id : i \in DOMAIN seq}
Occurrences(seq, id) == Cardinality({i \in DOMAIN seq : seq[i].id = id})
Delivered(m) == \E i \in DOMAIN chat_manager.messages : chat_manager.messages[i] = m
Flagged(m) ==
    \E i \in DOMAIN chat_manager.flagged_messages :
        chat_manager.flagged_messages[i] = m

SendHandled == last.op = "send"

\* A text that is empty or holds whitespace only.
IsBlank(s) == \A i \in 1..Len(s) : SubSeq(s, i, i) \in {" ", "\n", "\t"}
JudgeReplied == SendHandled /\ last.call.judge_called /\ ~last.outcome.raises

\* C1: no message is both in messages and in flagged_messages, and every
\* message add_message created since the last clear_chat is in exactly one
\* of the two lists, exactly once.
C1_LedgerPartition ==
    /\ Ids(chat_manager.messages) \cap Ids(chat_manager.flagged_messages) = {}
    /\ \A id \in created :
           Occurrences(chat_manager.messages, id)
             + Occurrences(chat_manager.flagged_messages, id) = 1
    /\ Ids(chat_manager.messages) \cup Ids(chat_manager.flagged_messages) = created

C1_Witness ==
    /\ Len(chat_manager.messages) >= 1
    /\ Len(chat_manager.flagged_messages) >= 1
    /\ Cardinality(created) = 2

\* C3: with no client the validator accepts with confidence 0.0 and does not
\* call the judge, whatever the content and the rules; with empty rules too
\* the result is the no-client one (confidence 0.0, not 1.0).
C3_NoClientFailOpen ==
    (SendHandled /\ ~last.client) =>
        /\ ~last.call.raised
        /\ last.call.vr.is_valid = PyBool(TRUE)
        /\ last.call.vr.confidence = PyNum(0)
        /\ ~last.call.judge_called

C3_Witness == SendHandled /\ ~last.client /\ IsBlank(last.rules)

\* C4: with a client and empty or whitespace-only rules the validator accepts
\* with confidence 1.0 without calling the judge, and the item is recorded
\* in the delivered list.
C4_EmptyRulesAccept ==
    (SendHandled /\ last.client /\ IsBlank(last.rules)) =>
        /\ ~last.call.raised
        /\ last.call.vr.is_valid = PyBool(TRUE)
        /\ last.call.vr.confidence = PyNum(100)
        /\ ~last.call.judge_called
        /\ last.recorded
        /\ last.entry.content = last.message
        /\ Delivered(last.entry)
        /\ ~Flagged(last.entry)

C4_Witness == SendHandled /\ last.client /\ last.rules = " " /\ Delivered(last.entry)

\* C5: when the call to the judge raises, the validator returns accepted with
\* confidence 0.0 and a reason carrying the failure detail, nothing is raised
\* to the caller, and the item is recorded in the delivered list.
C5_JudgeFailureFailOpen ==
    (SendHandled /\ last.call.judge_called /\ last.outcome.raises) =>
        /\ ~last.call.raised
        /\ last.call.vr.is_valid = PyBool(TRUE)
        /\ last.call.vr.confidence = PyNum(0)
        /\ last.call.vr.reason = PyStr("Validation error: " \o last.outcome.detail)
        /\ last.recorded
        /\ last.entry.content = last.message
        /\ Delivered(last.entry)
        /\ ~Flagged(last.entry)

C5_Witness ==
    /\ SendHandled /\ last.call.judge_called
    /\ last.outcome = Raises("APITimeoutError", "Request timed out.")
    /\ Delivered(last.entry)

\* The reasons that name a failure to read the reply as {valid, reason,
\* confidence}: the parse message for a text that is not JSON, and the
\* error text of the failed read for a document that is not an object.
ParseFailureReasons(json) ==
    IF json = "invalid" THEN {"Failed to parse validation response"}
    ELSE IF json = "list" THEN {"Validation error: 'list' object has no attribute 'get'"}
    ELSE IF json = "null" THEN {"Validation error: 'NoneType' object has no attribute 'get'"}
    ELSE {"Validation error: the JSON object must be str, bytes or bytearray, not NoneType"}

\* C6: when the judge's reply cannot be parsed into the structured shape (not
\* JSON, or JSON that is not an object), the validator returns accepted with
\* confidence 0.0 and a reason naming the parse failure.
C6_MalformedReplyFailOpen ==
    (JudgeReplied /\ last.outcome.json # "dict") =>
        /\ ~last.call.raised
        /\ last.call.vr.is_valid = PyBool(TRUE)
        /\ last.call.vr.confidence = PyNum(0)
        /\ last.call.vr.reason.t = "str"
        /\ last.call.vr.reason.s \in ParseFailureReasons(last.outcome.json)

C6_Witness == JudgeReplied /\ last.outcome.json = "list" /\ last.recorded

\* C9: a result built from a parsed judge response has confidence > 0, for
\* every response the judge can return.
C9_ParsedConfidencePositive ==
    (JudgeReplied /\ last.outcome.json = "dict") =>
        /\ last.call.vr.confidence.t = "num"
        /\ last.call.vr.confidence.n > 0

NonEmptyString(v) == v.t = "str" /\ v.s # ""

\* C10: every ValidationResult the validator returns and every reason stored
\* on a ledger entry is a non-empty string.
C10_ReasonNeverEmpty ==
    /\ (SendHandled /\ ~last.call.raised) => NonEmptyString(last.call.vr.reason)
    /\ \A i \in DOMAIN chat_manager.messages :
           NonEmptyString(chat_manager.messages[i].reason)
    /\ \A i \in DOMAIN chat_manager.flagged_messages :
           NonEmptyString(chat_manager.flagged_messages[i].reason)

\* C11: the confidence of every ValidationResult the validator returns lies
\* in [0, 1] (0..100 hundredths), whatever number the judge's response
\* carries.
C11_ConfidenceInUnitInterval ==
    (SendHandled /\ ~last.call.raised /\ last.call.vr.confidence.t = "num") =>
        /\ last.call.vr.confidence.n >= 0
        /\ last.call.vr.confidence.n <= 100

ClearHandled == last.op = "clear"

\* C12: clear_chat is all-or-nothing.  After it returns both lists are empty
\* and the counter is 0, so the next add_message is given msg_1; and in no
\* state is the counter reset while a list still holds entries, or are the
\* lists emptied while the counter still counts them.
C12_ClearChatAllOrNothing ==
    /\ ClearHandled =>
           /\ chat_manager.messages = << >>
           /\ chat_manager.flagged_messages = << >>
           /\ chat_manager.message_counter = 0
           /\ \A is_valid \in BOOLEAN :
                  AddMessage(app, chat_manager, DefaultUsername, "hi", "text",
                             ValidationResult(PyBool(is_valid), PyStr("r"), PyNum(100)),
                             NoMedia).message.id = "msg_1"
    /\ chat_manager.message_counter = 0 <=>
           (chat_manager.messages = << >> /\ chat_manager.flagged_messages = << >>)

\* Clear Chat was pressed on a ledger that held MaxMessages entries.
C12_Witness == ClearHandled /\ last.cleared = MaxMessages

\* C28: a message is flagged only when the parsed judge response explicitly
\* carries valid = false; a response that omits valid, or carries a value
\* that is no boolean (null, a number, a string), never causes flagging.
C28_FlaggedOnlyOnExplicitFalse ==
    (SendHandled /\ last.recorded /\ last.entry.status = "INVALID") =>
        /\ JudgeReplied
        /\ last.outcome.json = "dict"
        /\ "valid" \in DOMAIN last.outcome.doc
        /\ last.outcome.doc.valid = PyBool(FALSE)

\* What the stats column shows when no approval rate is rendered.
NoRate == [shown |-> FALSE]

\* f"{approval_rate:.1f}": the rate in tenths of a percent, rounded.
OneDecimal(numerator, denominator) ==
    (20 * numerator + denominator) \div (2 * denominator)

\* Mutant: the rate is computed from the blocked count.
StatsPanelBlockedShare(cm) ==
    LET valid_count == Len(cm.messages)
        flagged_count == Len(cm.flagged_messages)
        total_count == valid_count + flagged_count
    IN  [valid |-> valid_count, blocked |-> flagged_count,
         rate |-> IF total_count > 0
                  THEN [shown |-> TRUE,
                        caption |-> OneDecimal(flagged_count * 100, total_count)]
                  ELSE NoRate]

\* The stats column of run(): the two metrics and, for a ledger that is not
\* empty, the approval rate as captioned.
StatsPanel(cm) ==
    LET valid_count == Len(cm.messages)
        flagged_count == Len(cm.flagged_messages)
        total_count == valid_count + flagged_count
    IN  [valid |-> valid_count, blocked |-> flagged_count,
         rate |-> IF total_count > 0
                  THEN [shown |-> TRUE,
                        caption |-> OneDecimal(valid_count * 100, total_count)]
                  ELSE NoRate]

\* The caption is 100 * delivered / total to one decimal place.
RateIs(panel, delivered, total) ==
    /\ panel.rate.shown
    /\ 2 * (panel.rate.caption * total - 1000 * delivered) <= total
    /\ 2 * (1000 * delivered - panel.rate.caption * total) <= total

IdNumbers == 0..(2 * MaxMessages)
StrictlyIncreasingIds(seq) ==
    \A i, j \in DOMAIN seq :
        i < j => \E a, b \in IdNumbers :
                     /\ seq[i].id = MsgId(a) /\ seq[j].id = MsgId(b) /\ a < b

\* C22: in every state reached by add_message and clear_chat calls made one
\* after another, the ids in messages and flagged_messages are pairwise
\* distinct, they strictly increase along each list, and message_counter is
\* the number of entries recorded since the last clear.
C22_IdsUniqueAndMonotonic ==
    /\ Ids(chat_manager.messages) \cap Ids(chat_manager.flagged_messages) = {}
    /\ Cardinality(Ids(chat_manager.messages)) = Len(chat_manager.messages)
    /\ Cardinality(Ids(chat_manager.flagged_messages))
         = Len(chat_manager.flagged_messages)
    /\ StrictlyIncreasingIds(chat_manager.messages)
    /\ StrictlyIncreasingIds(chat_manager.flagged_messages)
    /\ chat_manager.message_counter
         = Len(chat_manager.messages) + Len(chat_manager.flagged_messages)

\* A delivered message recorded after a flagged one.
C22_Witness ==
    /\ Len(chat_manager.flagged_messages) = 1
    /\ Len(chat_manager.messages) = 1
    /\ chat_manager.messages[1].id = MsgId(2)

\* C15: add_message is append-only and touches one list.  A rejected item
\* goes to the end of flagged_messages and messages is unchanged; an accepted
\* item goes to the end of messages and flagged_messages is unchanged; the
\* entries recorded before keep their position and their fields.
C15_AddMessageAppendOnly ==
    [][(last'.op = "send" /\ last'.recorded) =>
          IF last'.entry.status = "INVALID"
          THEN /\ chat_manager'.flagged_messages =
                      Append(chat_manager.flagged_messages, last'.entry)
               /\ chat_manager'.messages = chat_manager.messages
          ELSE /\ chat_manager'.messages =
                      Append(chat_manager.messages, last'.entry)
               /\ chat_manager'.flagged_messages = chat_manager.flagged_messages]_vars

\* A rejected message was appended behind an earlier flagged one.
C15_Witness ==
    /\ SendHandled /\ last.recorded /\ last.entry.status = "INVALID"
    /\ Len(chat_manager.flagged_messages) >= 2

---------------------------------------------------------------------------
(* v1.6: app.py.  The judge streams one word; the verdict is a bool.       *)

\* A streamed completion: the contents of its chunks, and whether the
\* request (or the Groq constructor) raises before the stream ends.
Stream(chunks) == [raises |-> FALSE, cls |-> "", chunks |-> chunks]
StreamFails(cls) == [raises |-> TRUE, cls |-> cls, chunks |-> << >>]

VerdictStreams ==
    { Stream(<<PyStr("VALID")>>),
      Stream(<<PyStr("VAL"), PyStr("ID")>>),
      Stream(<<PyStr(" Valid"), PyNone, PyStr("\n")>>),
      Stream(<<PyStr("INVALID")>>),
      Stream(<<PyStr("invalid\n")>>),
      Stream(<< >>),
      Stream(<<PyNone>>),
      Stream(<<PyStr("Maybe")>>),
      Stream(<<PyStr("VALID.")>>),
      StreamFails("APIConnectionError"),
      StreamFails("APITimeoutError") }

NoStream == Stream(<< >>)

\* The outcome of v1.6 validate_message: the bool it returns, or the
\* exception that leaves it.
Verdict(is_valid) == [raised |-> FALSE, cls |-> "", is_valid |-> is_valid]
VerdictRaised(cls) == [raised |-> TRUE, cls |-> cls, is_valid |-> FALSE]

\* app.py validate_message over groq_response: no try block anywhere.
ValidateMessageV16(key, rules_, user_message, stream) ==
    IF stream.raises THEN VerdictRaised(stream.cls)
    ELSE LET full_response == Upper(Strip(Join(stream.chunks)))
         IN  Verdict(full_response = "VALID")

MessageV16(sender, content, is_valid) ==
    [sender |-> sender, content |-> content, is_valid |-> is_valid]

\* v1.6 ChatManager.__init__
NewChatManagerV16 == [valid_messages |-> << >>, blocked_messages |-> << >>]

\* v1.6 ChatManager.add_message
AddMessageV16(cm, sender, content, is_valid) ==
    IF is_valid
    THEN [cm EXCEPT !.valid_messages = Append(@, MessageV16(sender, content, is_valid))]
    ELSE [cm EXCEPT !.blocked_messages = Append(@, MessageV16(sender, content, is_valid))]

\* v1.6 ChatManager.clear_chat
ClearChatV16(cm) == [cm EXCEPT !.valid_messages = << >>, !.blocked_messages = << >>]

\* A v1.6 script run that handled a Send press with a message typed.
\* step: "no_key", "no_rules", "raised" or "recorded".
SendRunV16(message, rules_, key, stream, step, call) ==
    [op |-> "send", message |-> message, rules |-> rules_, key |-> key,
     stream |-> stream, step |-> step, call |-> call]

InitV16 ==
    /\ app = "v1.6"
    /\ api_key = ""
    /\ rules = ""
    /\ chat_manager = NewChatManagerV16
    /\ chat_history = << >>
    /\ flagged_messages = << >>
    /\ created = {}
    /\ sends = 0
    /\ last = NoRun
    /\ NoMediaSession

ClearChatPressedV16 ==
    /\ app = "v1.6"
    /\ chat_manager' = ClearChatV16(chat_manager)
    /\ sends' = 0
    /\ last' = NoRun
    /\ UNCHANGED <<idle_vars, app, api_key, rules, chat_history, flagged_messages, created>>

\* main(): the message form of v1.6.
SendV16(message_input, stream) ==
    /\ app = "v1.6"
    /\ sends < MaxMessages
    /\ IF message_input = ""
       THEN /\ last' = NoRun
            /\ UNCHANGED <<chat_manager, sends>>
       ELSE /\ sends' = sends + 1
            /\ IF api_key = ""
               THEN /\ last' = SendRunV16(message_input, rules, api_key, NoStream,
                                          "no_key", Verdict(FALSE))
                    /\ UNCHANGED chat_manager
               ELSE IF Strip(rules) = ""
               THEN /\ last' = SendRunV16(message_input, rules, api_key, NoStream,
                                          "no_rules", Verdict(FALSE))
                    /\ UNCHANGED chat_manager
               ELSE LET call == ValidateMessageV16(api_key, rules, message_input, stream)
                    IN  IF call.raised
                        THEN /\ last' = SendRunV16(message_input, rules, api_key,
                                                   stream, "raised", call)
                             /\ UNCHANGED chat_manager
                        ELSE /\ last' = SendRunV16(message_input, rules, api_key,
                                                   stream, "recorded", call)
                             /\ chat_manager' =
                                    AddMessageV16(chat_manager, DefaultUsername,
                                                  message_input, call.is_valid)
    /\ UNCHANGED <<idle_vars, app, api_key, rules, chat_history, flagged_messages, created>>

NextV16 ==
    \/ \E key \in ApiKeys : SetApiKey(key)
    \/ \E text \in RuleTexts : SaveRules(text)
    \/ ClearChatPressedV16
    \/ \E m \in MessageInputs, st \in VerdictStreams : SendV16(m, st)

SpecV16 == InitV16 /\ [][NextV16]_vars

---------------------------------------------------------------------------
(* v1.4: core_processing_engine.py and app.py.  The judge answers in JSON; *)
(* an accepted message gets a streamed assistant response.                 *)

\* The streamed assistant responses.
ResponseStreams ==
    { Stream(<<PyStr("Hel"), PyStr("lo")>>),
      Stream(<<PyNone, PyStr("ok")>>),
      StreamFails("APIConnectionError") }

\* The outcome of v1.4 validate_message: (is_valid, reason), or the
\* exception that leaves it.
VerdictV14(is_valid, reason) ==
    [raised |-> FALSE, cls |-> "", is_valid |-> is_valid, reason |-> reason]
VerdictRaisedV14(cls) ==
    [raised |-> TRUE, cls |-> cls, is_valid |-> FALSE, reason |-> PyNone]

\* v1.4 validate_message: the completion call is made outside the try block;
\* json.loads and the two result.get calls are inside it.
ValidateMessageV14(key, rules_, user_message, outcome) ==
    IF outcome.raises THEN VerdictRaisedV14(outcome.cls)
    ELSE IF outcome.json # "dict"
    THEN VerdictV14(TRUE, PyStr("Validation failed, allowing message."))
    ELSE VerdictV14(Truthy(Get(outcome.doc, "valid", PyBool(TRUE))),
                    Get(outcome.doc, "reason", PyStr("No reason provided.")))

\* Mutant: the generator is created whatever the verdict.
ValidateAndStreamMessageAlways(key, rules_, user_message, outcome) ==
    LET v == ValidateMessageV14(key, rules_, user_message, outcome)
    IN  [raised |-> v.raised, cls |-> v.cls, is_valid |-> v.is_valid,
         reason |-> v.reason,
         stream_gen |-> IF ~v.raised THEN "generator" ELSE "None"]

\* v1.4 validate_and_stream_message: (is_valid, reason, stream_generator).
\* The generator is only created here; its request is issued when the
\* caller first iterates it.
ValidateAndStreamMessage(key, rules_, user_message, outcome) ==
    LET v == ValidateMessageV14(key, rules_, user_message, outcome)
    IN  [raised |-> v.raised, cls |-> v.cls, is_valid |-> v.is_valid,
         reason |-> v.reason,
         stream_gen |-> IF ~v.raised /\ v.is_valid THEN "generator" ELSE "None"]

\* A v1.4 script run that handled a Send press.  step: "not_filled",
\* "validate_raised", "stream_raised", "delivered" or "flagged"; requests:
\* the remote requests the run issued, in order.
SendRunV14(message, rules_, key, outcome, step, call, requests) ==
    [op |-> "send", message |-> message, rules |-> rules_, key |-> key,
     outcome |-> outcome, step |-> step, call |-> call, requests |-> requests]

NoCallV14 ==
    [raised |-> FALSE, cls |-> "", is_valid |-> FALSE, reason |-> PyNone,
     stream_gen |-> "None"]

InitV14 ==
    /\ app = "v1.4"
    /\ api_key = ""
    /\ rules = ""
    /\ chat_manager = NewChatManager
    /\ chat_history = << >>
    /\ flagged_messages = << >>
    /\ created = {}
    /\ sends = 0
    /\ last = NoRun
    /\ NoMediaSession

\* The sidebar text area: st.session_state.rules follows every edit.
SetRulesV14(text) ==
    /\ app = "v1.4"
    /\ rules' = text
    /\ last' = NoRun
    /\ UNCHANGED <<idle_vars, app, api_key, chat_manager, chat_history, flagged_messages,
                   created, sends>>

ClearChatPressedV14 ==
    /\ app = "v1.4"
    /\ chat_history' = << >>
    /\ flagged_messages' = << >>
    /\ sends' = 0
    /\ last' = NoRun
    /\ UNCHANGED <<idle_vars, app, api_key, rules, chat_manager, created>>

\* app.py `if send_btn:`.
SendV14(user_message, outcome, response) ==
    /\ app = "v1.4"
    /\ sends < MaxMessages
    /\ sends' = IF user_message = "" THEN sends ELSE sends + 1
    /\ IF api_key = "" \/ user_message = ""
       THEN /\ last' = IF user_message = "" THEN NoRun
                       ELSE SendRunV14(user_message, rules, api_key, NoOutcome,
                                       "not_filled", NoCallV14, << >>)
            /\ UNCHANGED <<chat_history, flagged_messages>>
       ELSE LET call == ValidateAndStreamMessage(api_key, rules, user_message, outcome)
            IN  IF call.raised
                THEN /\ last' = SendRunV14(user_message, rules, api_key, outcome,
                                           "validate_raised", call, <<"validate">>)
                     /\ UNCHANGED <<chat_history, flagged_messages>>
                ELSE IF call.is_valid
                THEN IF response.raises
                     THEN /\ last' = SendRunV14(user_message, rules, api_key, outcome,
                                        "stream_raised", call, <<"validate", "stream">>)
                          /\ UNCHANGED <<chat_history, flagged_messages>>
                     ELSE /\ last' = SendRunV14(user_message, rules, api_key, outcome,
                                        "delivered", call, <<"validate", "stream">>)
                          /\ chat_history' = Append(chat_history,
                                 [sender |-> DefaultUsername, rules |-> rules,
                                  user_message |-> user_message,
                                  response |-> Join(response.chunks)])
                          /\ UNCHANGED flagged_messages
                ELSE /\ last' = SendRunV14(user_message, rules, api_key, outcome,
                                           "flagged", call, <<"validate">>)
                     /\ flagged_messages' = Append(flagged_messages,
                            [sender |-> DefaultUsername,
                             user_message |-> user_message,
                             reason |-> call.reason])
                     /\ UNCHANGED chat_history
    /\ UNCHANGED <<idle_vars, app, api_key, rules, chat_manager, created>>

NextV14 ==
    \/ \E key \in ApiKeys : SetApiKey(key)
    \/ \E text \in RuleTexts : SetRulesV14(text)
    \/ ClearChatPressedV14
    \/ \E m \in MessageInputs, o \in JudgeOutcomes, r \in ResponseStreams :
           SendV14(m, o, r)

SpecV14 == InitV14 /\ [][NextV14]_vars

---------------------------------------------------------------------------
(* Properties of the chat apps' send handlers.                             *)

\* The entries the running app has recorded, delivered and flagged together.
RecordedCount ==
    CASE app \in {"v1.1", "v1.2"} ->
             Len(chat_manager.messages) + Len(chat_manager.flagged_messages)
      [] app = "v1.6" ->
             Len(chat_manager.valid_messages) + Len(chat_manager.blocked_messages)
      [] app = "v1.4" -> Len(chat_history) + Len(flagged_messages)

\* C2: every non-empty message for which Send is pressed is recorded in
\* exactly one of the delivered list and the flagged list, whatever the API
\* key and the saved rules are: the recorded entries are as many as the
\* presses since the last clear.
C2_EverySendRecorded == RecordedCount = sends

\* C7: in v1.6 a judge reply that is no verdict (empty, or any text other
\* than the single word VALID or INVALID) leaves the message accepted.
C7_UnreadableVerdictAccepted ==
    (/\ app = "v1.6" /\ SendHandled /\ last.step = "recorded"
     /\ Upper(Strip(Join(last.stream.chunks))) \notin {"VALID", "INVALID"}) =>
        /\ last.call.is_valid
        /\ Len(chat_manager.valid_messages) > 0
        /\ chat_manager.valid_messages[Len(chat_manager.valid_messages)].content
               = last.message

\* The remote call the handled Send made to the judge raised.
JudgeCallFailed ==
    CASE app = "v1.4" -> last.outcome.raises
      [] app = "v1.6" -> last.stream.raises
      [] OTHER -> FALSE

\* C8: in the v1.4 and v1.6 moderation paths a failure of the remote judge
\* call becomes an ordinary result (accepted, with a reason); no exception
\* leaves validate_message, validate_and_stream_message or the send handler.
C8_NoExceptionPropagates ==
    (app \in {"v1.4", "v1.6"} /\ SendHandled /\ JudgeCallFailed) =>
        /\ ~last.call.raised
        /\ last.call.is_valid
        /\ last.step \in {"delivered", "recorded"}

\* The positions of a request in the requests a run issued.
Issued(run, request) == {i \in DOMAIN run.requests : run.requests[i] = request}

\* C26: in v1.4, validate_and_stream_message returns a stream generator
\* exactly when validate_message accepted the message and None otherwise;
\* the response-generation request is never issued for a rejected message
\* and never before validation has returned.
C26_StreamOnlyAfterAcceptance ==
    (app = "v1.4" /\ SendHandled) =>
        /\ (last.step # "not_filled" /\ ~last.call.raised) =>
               /\ last.call.is_valid => last.call.stream_gen = "generator"
               /\ ~last.call.is_valid => last.call.stream_gen = "None"
        /\ Issued(last, "stream") # {} =>
               /\ ~last.call.raised /\ last.call.is_valid
               /\ \A i \in Issued(last, "stream") :
                      \E j \in Issued(last, "validate") : j < i
        /\ last.step = "flagged" => Issued(last, "stream") = {}

\* A rejected message: None is returned and only the validation request
\* was issued.
C26_Witness ==
    /\ app = "v1.4" /\ SendHandled /\ last.step = "flagged"
    /\ last.call.stream_gen = "None"
    /\ last.requests = <<"validate">>

---------------------------------------------------------------------------
(* ChatManager.add_message entered by two callers at once.  The method     *)
(* holds no lock, so the callers interleave between its statements: the    *)
(* counter increment (line 165), the Message construction that reads the   *)
(* counter for the id (166-174) and the append (176-183).                  *)

Callers == {"a", "b"}

\* The verdicts the callers bring.
CallerResults ==
    { ValidationResult(PyBool(TRUE), PyStr("ok"), PyNum(90)),
      ValidationResult(PyBool(FALSE), PyStr("spam"), PyNum(95)) }

\* A caller outside add_message that has not called it yet.
Idle == [pc |-> "idle", vr |-> NoResult, message |-> NoMessage]

InitConcurrent ==
    /\ app = "v1.1"
    /\ api_key = ""
    /\ rules = ""
    /\ chat_manager = NewChatManager
    /\ chat_history = << >>
    /\ flagged_messages = << >>
    /\ created = {}
    /\ sends = 0
    /\ last = NoRun
    /\ uploaded_image = NoFile
    /\ uploaded_audio = NoFile
    /\ processing_media = FALSE
    /\ rerun_pending = FALSE
    /\ threads = [t \in Callers |-> Idle]
    /\ in_flight = NoCall
    /\ noted = NoCall

\* Calls begun: those past the increment and those about to make it.
CallsBegun ==
    chat_manager.message_counter
        + Cardinality({t \in Callers : threads[t].pc = "called"})

\* A caller enters add_message with its validation_result.
EnterAddMessage(t, vr) ==
    /\ threads[t].pc \in {"idle", "returned"}
    /\ CallsBegun < MaxMessages
    /\ threads' = [threads EXCEPT ![t] = [pc |-> "called", vr |-> vr,
                                          message |-> NoMessage]]
    /\ UNCHANGED <<media_vars, in_flight, noted, app, api_key, rules, chat_manager, chat_history,
                   flagged_messages, created, sends, last>>

\* self.message_counter += 1
IncrementCounter(t) ==
    /\ threads[t].pc = "called"
    /\ chat_manager' = [chat_manager EXCEPT !.message_counter = @ + 1]
    /\ threads' = [threads EXCEPT ![t].pc = "incremented"]
    /\ UNCHANGED <<media_vars, in_flight, noted, app, api_key, rules, chat_history,
                   flagged_messages, created, sends, last>>

\* message = Message(id=f"msg_{self.message_counter}", ...)
BuildMessage(t) ==
    /\ threads[t].pc = "incremented"
    /\ threads' = [threads EXCEPT
           ![t].pc = "built",
           ![t].message = Message(app, MsgId(chat_manager.message_counter),
                                  DefaultUsername, "hi", "text",
                                  threads[t].vr, NoMedia)]
    /\ UNCHANGED <<media_vars, in_flight, noted, app, api_key, rules, chat_manager, chat_history,
                   flagged_messages, created, sends, last>>

\* The append to messages or to flagged_messages, and the return.
AppendMessage(t) ==
    /\ threads[t].pc = "built"
    /\ chat_manager' =
           IF Truthy(threads[t].vr.is_valid)
           THEN [chat_manager EXCEPT !.messages = Append(@, threads[t].message)]
           ELSE [chat_manager EXCEPT
                     !.flagged_messages = Append(@, threads[t].message)]
    /\ threads' = [threads EXCEPT ![t].pc = "returned"]
    /\ UNCHANGED <<media_vars, in_flight, noted, app, api_key, rules, chat_history,
                   flagged_messages, created, sends, last>>

NextConcurrent ==
    \/ \E t \in Callers, vr \in CallerResults : EnterAddMessage(t, vr)
    \/ \E t \in Callers : IncrementCounter(t)
    \/ \E t \in Callers : BuildMessage(t)
    \/ \E t \in Callers : AppendMessage(t)

SpecConcurrent == InitConcurrent /\ [][NextConcurrent]_vars

HoldsMessage(t) == threads[t].pc \in {"built", "returned"}

\* C13: two callers inside add_message at once never get the same id, and
\* each call makes exactly one append: the message a caller was returned is
\* once in exactly one of the two lists.
C13_ConcurrentAddMessage ==
    /\ \A t, u \in Callers :
           (t # u /\ HoldsMessage(t) /\ HoldsMessage(u)) =>
               threads[t].message.id # threads[u].message.id
    /\ \A t \in Callers :
           threads[t].pc = "returned" =>
               Occurrences(chat_manager.messages, threads[t].message.id)
                 + Occurrences(chat_manager.flagged_messages,
                               threads[t].message.id) = 1

---------------------------------------------------------------------------
(* v1.2: the multimodal app.  Every script run, whatever triggered it,     *)
(* passes the sidebar, then the image branch, then the audio branch, then  *)
(* the message form; st.rerun() ends the run and asks for the next one.    *)
(* A run is one action: the remote calls it makes return within it.        *)

MAX_FILE_SIZE_MB == 25

\* Files the user can put into the uploaders; size in whole megabytes.
ImageFiles ==
    { [name |-> "cat.png", size_mb |-> 1, data |-> "png-bytes"],
      [name |-> "big.PNG", size_mb |-> 26, data |-> "big-png-bytes"] }
AudioFiles == { [name |-> "memo.mp3", size_mb |-> 1, data |-> "mp3-bytes"] }

RuleTextsV12 == {"", "no spam"}

\* The vision / transcription call: it raises, or answers with a text.
Answers(text) == [raises |-> FALSE, cls |-> "", detail |-> "", text |-> text]
CallFails(cls, detail) == [raises |-> TRUE, cls |-> cls, detail |-> detail, text |-> ""]
NoAnswer == Answers("")

CaptionOutcomes ==
    { Answers(" A cat on a sofa. "),
      CallFails("APIConnectionError", "Connection error.") }
TranscriptionOutcomes ==
    { Answers(" hello there\n"), Answers(""), Answers(" \n"),
      CallFails("APIConnectionError", "Connection error.") }

\* Judge outcomes the media runs are checked with: an accept, a reject, a
\* reply that is not JSON and a failed call.
JudgeOutcomesV12 ==
    { Reply("dict", [valid |-> PyBool(TRUE), reason |-> PyStr("ok"),
                     confidence |-> PyNum(90)]),
      Reply("dict", [valid |-> PyBool(FALSE), reason |-> PyStr("spam"),
                     confidence |-> PyNum(95)]),
      Reply("invalid", << >>),
      Raises("APITimeoutError", "Request timed out.") }

LowerChar(c) ==
    IF \E i \in 1..Len(UpperCase) : SubSeq(UpperCase, i, i) = c
    THEN LET i == CHOOSE i \in 1..Len(UpperCase) : SubSeq(UpperCase, i, i) = c
         IN  SubSeq(LowerCase, i, i)
    ELSE c

RECURSIVE Lower(_)
\* str.lower()
Lower(s) ==
    IF Len(s) = 0 THEN s
    ELSE LowerChar(SubSeq(s, 1, 1)) \o Lower(SubSeq(s, 2, Len(s)))

\* s.split('.')[-1]
AfterLastDot(s) ==
    LET dots == {i \in 1..Len(s) : SubSeq(s, i, i) = "."}
    IN  IF dots = {} THEN s
        ELSE SubSeq(s, (CHOOSE i \in dots : \A j \in dots : j <= i) + 1, Len(s))

\* What process_image / process_audio did: returned a text, or raised.
Normalized(text) == [raised |-> FALSE, cls |-> "", detail |-> "", text |-> text]
NormalizerRaised(cls, detail) ==
    [raised |-> TRUE, cls |-> cls, detail |-> detail, text |-> ""]

\* Mutant: the failure of the vision call is not caught.
ProcessImageRaising(client, answer) ==
    IF ~client THEN Normalized("Image uploaded (API not configured)")
    ELSE IF answer.raises THEN NormalizerRaised(answer.cls, answer.detail)
    ELSE Normalized(Strip(answer.text))

\* MultimodalContentValidator.process_image
ProcessImage(client, answer) ==
    IF ~client THEN Normalized("Image uploaded (API not configured)")
    ELSE IF answer.raises
         THEN Normalized("Failed to process image: " \o answer.detail)
    ELSE Normalized(Strip(answer.text))

\* Mutant: an empty transcript is returned as it is.
ProcessAudioNoSentinel(client, answer) ==
    IF ~client THEN Normalized("Audio uploaded (API not configured)")
    ELSE IF answer.raises
         THEN Normalized("Failed to process audio: " \o answer.detail)
    ELSE Normalized(Strip(answer.text))

\* MultimodalContentValidator.process_audio
ProcessAudio(client, answer) ==
    IF ~client THEN Normalized("Audio uploaded (API not configured)")
    ELSE IF answer.raises
         THEN Normalized("Failed to process audio: " \o answer.detail)
    ELSE LET transcript == Strip(answer.text)
         IN  Normalized(IF transcript # "" THEN transcript
                        ELSE "No speech detected in audio")

\* ConvoEaseMultimodalApp.check_file_size
CheckFileSize(file) == ~(file.size_mb > MAX_FILE_SIZE_MB)

\* The (is_valid, content, media_content) process_media_content returns,
\* with what happened inside it: the normalizer's result, the text handed to
\* validate_text_content and that call's outcome.
MediaResult(is_valid, content, media_content, normalizer, validated, call) ==
    [is_valid |-> is_valid, content |-> content, media_content |-> media_content,
     normalizer |-> normalizer, validated |-> validated, call |-> call]

NotNormalized == NormalizerRaised("", "")
NotValidated == Returned(NoResult, FALSE)

\* ConvoEaseMultimodalApp.process_media_content
ProcessMediaContent(file, media_type, client, rules_, answer, outcome) ==
    IF ~CheckFileSize(file)
    THEN MediaResult(PyBool(FALSE), "File size exceeds limit", NoMedia,
                     NotNormalized, FALSE, NotValidated)
    ELSE LET file_format == Lower(AfterLastDot(file.name))
             normalizer == IF media_type = "image" THEN ProcessImage(client, answer)
                           ELSE ProcessAudio(client, answer)
             call == ValidateMessage("v1.2", client, normalizer.text, rules_, outcome)
         IN  IF normalizer.raised
             THEN MediaResult(PyBool(FALSE), "Processing error: " \o normalizer.detail,
                              NoMedia, normalizer, FALSE, NotValidated)
             ELSE IF call.raised
             THEN MediaResult(PyBool(FALSE), "Processing error: " \o call.cls,
                              NoMedia, normalizer, TRUE, call)
             ELSE MediaResult(call.vr.is_valid, normalizer.text,
                              MediaContent(file_format, file.name, file.data,
                                           normalizer.text),
                              normalizer, TRUE, call)

\* A script run that took the image or the audio branch.  `pressed` is the
\* text typed with a Send press the run did not get to.
MediaRun(kind, file, rules_, client, answer, outcome, result, entry, pressed) ==
    [op |-> "media", kind |-> kind, file |-> file, rules |-> rules_,
     client |-> client,
     answer |-> IF client /\ CheckFileSize(file) THEN answer ELSE NoAnswer,
     outcome |-> IF result.call.judge_called THEN outcome ELSE NoOutcome,
     result |-> result, call |-> result.call, recorded |-> TRUE,
     entry |-> entry, pressed |-> pressed]

MediaAnswers(kind) ==
    IF kind = "image" THEN CaptionOutcomes ELSE TranscriptionOutcomes

ProcessedReason(kind) ==
    IF kind = "image" THEN "Image processed" ELSE "Audio processed"

\* `if uploaded_image and not st.session_state.processing_media:` and the
\* same for audio: process, build the ValidationResult, record, rerun.
MediaBranch(kind, file, key, rules_, pressed) ==
    /\ chat_manager.message_counter < MaxMessages
    /\ \E init_ok \in BOOLEAN, answer \in MediaAnswers(kind),
          outcome \in JudgeOutcomesV12 :
        \E result \in {ProcessMediaContent(file, kind, Client(key, init_ok),
                                           rules_, answer, outcome)} :
        \E validation_result \in
               {ValidationResult(result.is_valid,
                    PyStr(IF Truthy(result.is_valid) THEN ProcessedReason(kind)
                          ELSE result.content),
                    PyNum(100))} :
        \E am \in {AddMessage("v1.2", chat_manager, DefaultUsername,
                              result.content, kind, validation_result,
                              result.media_content)} :
            /\ chat_manager' = am.cm
            /\ created' = created \cup {am.message.id}
            /\ last' = MediaRun(kind, file, rules_, Client(key, init_ok),
                                answer, outcome, result, am.message, pressed)
    /\ processing_media' = FALSE
    /\ rerun_pending' = TRUE

\* The message form of v1.2.
FormBranch(key, rules_, message_input) ==
    /\ chat_manager.message_counter < MaxMessages
    /\ \E init_ok \in BOOLEAN, outcome \in JudgeOutcomesV12 :
        \E call \in {ValidateMessage("v1.2", Client(key, init_ok), message_input,
                                     rules_, outcome)} :
        \E am \in {AddMessage("v1.2", chat_manager, DefaultUsername,
                              message_input, "text", call.vr, NoMedia)} :
            IF call.raised
            THEN /\ last' = SendRun(message_input, rules_, Client(key, init_ok),
                                    outcome, call, FALSE, NoMessage)
                 /\ rerun_pending' = FALSE
                 /\ UNCHANGED <<chat_manager, created>>
            ELSE /\ chat_manager' = am.cm
                 /\ created' = created \cup {am.message.id}
                 /\ last' = SendRun(message_input, rules_, Client(key, init_ok),
                                    outcome, call, TRUE, am.message)
                 /\ rerun_pending' = TRUE
    /\ UNCHANGED processing_media

\* The main column of run(), from the uploaders on, with the widget values
\* this run sees.
MainColumn(key, rules_, image, audio, message_input) ==
    IF image # NoFile /\ ~processing_media
    THEN MediaBranch("image", image, key, rules_, message_input)
    ELSE IF audio # NoFile /\ ~processing_media
    THEN MediaBranch("audio", audio, key, rules_, message_input)
    ELSE IF message_input # ""
    THEN FormBranch(key, rules_, message_input)
    ELSE /\ last' = NoRun
         /\ rerun_pending' = FALSE
         /\ UNCHANGED <<chat_manager, created, processing_media>>

InitV12 ==
    /\ app = "v1.2"
    /\ api_key = ""
    /\ rules = ""
    /\ chat_manager = NewChatManager
    /\ chat_history = << >>
    /\ flagged_messages = << >>
    /\ created = {}
    /\ sends = 0
    /\ last = NoRun
    /\ NoMediaSession

SetApiKeyV12(key) ==
    /\ api_key' = key
    /\ MainColumn(key, rules, uploaded_image, uploaded_audio, "")
    /\ UNCHANGED <<threads, in_flight, noted, app, rules, chat_history, flagged_messages, sends,
                   uploaded_image, uploaded_audio>>

SaveRulesV12(text) ==
    /\ rules' = text
    /\ MainColumn(api_key, text, uploaded_image, uploaded_audio, "")
    /\ UNCHANGED <<threads, in_flight, noted, app, api_key, chat_history, flagged_messages, sends,
                   uploaded_image, uploaded_audio>>

\* Clear Chat: clear_chat() and st.rerun(), in the sidebar.
ClearChatPressedV12 ==
    /\ chat_manager' = ClearChat(chat_manager)
    /\ created' = {}
    /\ sends' = 0
    /\ last' = ClearRun(chat_manager.message_counter)
    /\ rerun_pending' = TRUE
    /\ UNCHANGED <<threads, in_flight, noted, app, api_key, rules, chat_history, flagged_messages,
                   uploaded_image, uploaded_audio, processing_media>>

\* The user puts a file into the image uploader.
UploadImage(file) ==
    /\ file # uploaded_image
    /\ uploaded_image' = file
    /\ MainColumn(api_key, rules, file, uploaded_audio, "")
    /\ UNCHANGED <<threads, in_flight, noted, app, api_key, rules, chat_history, flagged_messages,
                   sends, uploaded_audio>>

\* The user puts a file into the audio uploader.
UploadAudio(file) ==
    /\ file # uploaded_audio
    /\ uploaded_audio' = file
    /\ MainColumn(api_key, rules, uploaded_image, file, "")
    /\ UNCHANGED <<threads, in_flight, noted, app, api_key, rules, chat_history, flagged_messages,
                   sends, uploaded_image>>

\* The user removes the file from the image uploader.
RemoveImage ==
    /\ uploaded_image # NoFile
    /\ uploaded_image' = NoFile
    /\ MainColumn(api_key, rules, NoFile, uploaded_audio, "")
    /\ UNCHANGED <<threads, in_flight, noted, app, api_key, rules, chat_history, flagged_messages,
                   sends, uploaded_audio>>

\* The user removes the file from the audio uploader.
RemoveAudio ==
    /\ uploaded_audio # NoFile
    /\ uploaded_audio' = NoFile
    /\ MainColumn(api_key, rules, uploaded_image, NoFile, "")
    /\ UNCHANGED <<threads, in_flight, noted, app, api_key, rules, chat_history, flagged_messages,
                   sends, uploaded_image>>

\* Send pressed with message_input typed into the form.
SendV12(message_input) ==
    /\ sends < MaxMessages
    /\ sends' = IF message_input = "" THEN sends ELSE sends + 1
    /\ MainColumn(api_key, rules, uploaded_image, uploaded_audio, message_input)
    /\ UNCHANGED <<threads, in_flight, noted, app, api_key, rules, chat_history, flagged_messages,
                   uploaded_image, uploaded_audio>>

\* The run st.rerun() asked for; no widget has changed.
RerunV12 ==
    /\ rerun_pending
    /\ MainColumn(api_key, rules, uploaded_image, uploaded_audio, "")
    /\ UNCHANGED <<threads, in_flight, noted, app, api_key, rules, chat_history, flagged_messages,
                   sends, uploaded_image, uploaded_audio>>

NextV12 ==
    \/ \E key \in ApiKeys : SetApiKeyV12(key)
    \/ \E text \in RuleTextsV12 : SaveRulesV12(text)
    \/ ClearChatPressedV12
    \/ \E file \in ImageFiles : UploadImage(file)
    \/ \E file \in AudioFiles : UploadAudio(file)
    \/ RemoveImage
    \/ RemoveAudio
    \/ \E m \in MessageInputs : SendV12(m)
    \/ RerunV12

SpecV12 == InitV12 /\ [][NextV12]_vars

\* Streamlit runs the script again once st.rerun() has been called.
FairSpecV12 == SpecV12 /\ WF_vars(RerunV12)

---------------------------------------------------------------------------
(* The chat room of v1.2: render_message over get_valid_messages.          *)

\* Mutant: the chat room is given the flagged messages as well.
GetAllMessages(cm) == cm.messages \o cm.flagged_messages

\* MultimodalChatManager.get_valid_messages
GetValidMessages(cm) == cm.messages

\* What render_message puts on the page for one message: the content (the
\* text, caption or transcript), the file bytes handed to st.image /
\* st.audio ("" = no player), and the reason line.  `item` is the id of the
\* message the block was drawn from.
RenderMessage(message, is_flagged) ==
    [item |-> message.id,
     content |-> message.content,
     struck_through |-> is_flagged,
     file_data |->
         IF /\ message.message_type \in {"image", "audio"}
            /\ ~is_flagged
            /\ message.media_content # NoMedia
            /\ message.media_content.file_data # ""
         THEN message.media_content.file_data
         ELSE "",
     blocked |-> IF is_flagged THEN message.reason ELSE PyNone]

\* The chat display of run(): every valid message, rendered unflagged.
ChatRoom ==
    LET messages == GetValidMessages(chat_manager)
    IN  [i \in DOMAIN messages |-> RenderMessage(messages[i], FALSE)]

---------------------------------------------------------------------------
(* Properties of the v1.2 app, checked under SpecV12.                      *)

MediaHandled == last.op = "media"

\* C14: every message in messages has status VALID, every message in
\* flagged_messages has status INVALID, and no block of the chat room is
\* drawn from a flagged message: neither its content nor its file bytes
\* are rendered there.
C14_FlaggedNeverRendered ==
    /\ \A i \in DOMAIN chat_manager.messages :
           chat_manager.messages[i].status = "VALID"
    /\ \A i \in DOMAIN chat_manager.flagged_messages :
           chat_manager.flagged_messages[i].status = "INVALID"
    /\ \A i \in DOMAIN ChatRoom :
           ChatRoom[i].item \notin Ids(chat_manager.flagged_messages)

\* A flagged image or audio that kept its file bytes sits in the ledger
\* while the chat room shows a delivered one with its player.
C14_Witness ==
    /\ \E i \in DOMAIN chat_manager.flagged_messages :
           chat_manager.flagged_messages[i].media_content.file_data # ""
    /\ \E i \in DOMAIN ChatRoom : ChatRoom[i].file_data # ""

\* The file the uploader of last.kind holds.
Uploaded(kind, image, audio) == IF kind = "image" THEN image ELSE audio

\* C16: an uploaded file is validated and recorded once.  A run that finds
\* the file it has just recorded still in the uploader does not record it
\* again.
C16_UploadRecordedOnce ==
    [][(/\ MediaHandled
        /\ uploaded_image' = uploaded_image
        /\ uploaded_audio' = uploaded_audio
        /\ Uploaded(last.kind, uploaded_image, uploaded_audio) = last.file)
       => ~(/\ last'.op = "media"
            /\ last'.kind = last.kind
            /\ chat_manager'.message_counter > chat_manager.message_counter)]_vars

LedgerFull == chat_manager.message_counter >= MaxMessages

\* C17: every submitted item is eventually recorded.  While an image and an
\* audio file are both in the uploaders, a run eventually records the audio;
\* and a text sent in a run that went to a media branch is eventually
\* recorded.  (Runs stop at the modelled ledger capacity.)
C17_EverySubmissionRecorded ==
    /\ (uploaded_image # NoFile /\ uploaded_audio # NoFile)
           ~> \/ (MediaHandled /\ last.kind = "audio")
              \/ uploaded_audio = NoFile
              \/ LedgerFull
    /\ (MediaHandled /\ last.pressed # "")
           ~> \/ (SendHandled /\ last.recorded)
              \/ LedgerFull

\* C18: the status, reason and confidence stored on the ledger Message of a
\* recorded text, image or audio are those of the ValidationResult
\* validate_text_content returned for it.
C18_StoredVerdictIsValidatorVerdict ==
    ((SendHandled \/ MediaHandled) /\ last.recorded
        /\ (MediaHandled => last.result.validated) /\ ~last.call.raised) =>
        /\ last.entry.status = Status(last.call.vr)
        /\ last.entry.reason = last.call.vr.reason
        /\ last.entry.confidence = last.call.vr.confidence

AudioHandled == MediaHandled /\ last.kind = "audio"
Transcribed == AudioHandled /\ last.client /\ CheckFileSize(last.file)

\* C19: the text process_audio hands to validate_text_content is never
\* empty.  For an empty or whitespace-only transcript it is the sentinel
\* "No speech detected in audio", and the sentinel is what is validated and
\* stored as the content.
C19_AudioSurrogateNeverEmpty ==
    (AudioHandled /\ CheckFileSize(last.file)) =>
        /\ ~last.result.normalizer.raised
        /\ last.result.normalizer.text # ""
        /\ last.result.validated
        /\ (Transcribed /\ ~last.answer.raises /\ IsBlank(last.answer.text)) =>
               /\ last.result.normalizer.text = "No speech detected in audio"
               /\ last.entry.content = "No speech detected in audio"

C19_Witness ==
    /\ Transcribed /\ ~last.answer.raises /\ last.answer.text = " \n"
    /\ last.entry.content = "No speech detected in audio"

FailureText(kind) ==
    IF kind = "image" THEN "Failed to process image: " ELSE "Failed to process audio: "

CapabilityFailed ==
    MediaHandled /\ last.client /\ CheckFileSize(last.file) /\ last.answer.raises

\* C20: a failed captioning or transcription call is not raised and does not
\* drop the item.  The failure text is the surrogate, validate_text_content
\* is called on it, and the item is recorded with it in messages or in
\* flagged_messages as that verdict says.
C20_NormalizerFailureRecorded ==
    CapabilityFailed =>
        /\ ~last.result.normalizer.raised
        /\ last.result.normalizer.text = FailureText(last.kind) \o last.answer.detail
        /\ last.result.validated /\ ~last.call.raised
        /\ last.recorded
        /\ last.entry.content = last.result.normalizer.text
        /\ IF Truthy(last.call.vr.is_valid)
           THEN Delivered(last.entry) /\ ~Flagged(last.entry)
           ELSE Flagged(last.entry) /\ ~Delivered(last.entry)

\* A failed captioning call whose failure text the judge rejected.
C20_Witness ==
    /\ CapabilityFailed /\ last.kind = "image"
    /\ last.call.judge_called /\ ~Truthy(last.call.vr.is_valid)
    /\ Flagged(last.entry)

---------------------------------------------------------------------------
(* A validation in flight (v1.1 / v1.2).  validate_message builds its      *)
(* prompt from its `rules` parameter and then waits for the judge; the     *)
(* saved rules may be replaced before the reply arrives.                   *)

\* The call that has sent its request: its arguments as bound at the call,
\* and the rules that were saved when the submission started.
Waiting(message, rules_, client, started) ==
    [active |-> TRUE, message |-> message, rules |-> rules_, client |-> client,
     started |-> started]

\* Mutant: the rules are read from the session when the reply arrives.
RulesOfCallLate(call, session_rules) == session_rules

\* The rules validate_message judges with: its parameter, bound at the call.
RulesOfCall(call, session_rules) == call.rules

\* A submission completed by the judge's reply.  `started` and `saved` are
\* the saved rules at submission start and at the reply.
ReplyRun(message, started, saved, used, client, outcome, call, entry) ==
    [op |-> "reply", message |-> message, started |-> started, saved |-> saved,
     rules |-> used, client |-> client, outcome |-> outcome, call |-> call,
     recorded |-> TRUE, entry |-> entry]

\* Send pressed: run() reads the saved rules and calls validate_message,
\* which returns at once (no client, blank rules) or sends its request.
BeginSend(message_input, init_ok) ==
    /\ app \in {"v1.1", "v1.2"}
    /\ ~in_flight.active
    /\ sends < MaxMessages
    /\ message_input # ""
    /\ sends' = sends + 1
    /\ IF ~Client(api_key, init_ok) \/ Strip(rules) = ""
       THEN \E call \in {ValidateMessage(app, Client(api_key, init_ok),
                                         message_input, rules, NoOutcome)} :
            \E am \in {AddMessage(app, chat_manager, DefaultUsername,
                                  message_input, "text", call.vr, NoMedia)} :
                /\ chat_manager' = am.cm
                /\ created' = created \cup {am.message.id}
                /\ last' = SendRun(message_input, rules, Client(api_key, init_ok),
                                   NoOutcome, call, TRUE, am.message)
                /\ UNCHANGED in_flight
       ELSE /\ in_flight' = Waiting(message_input, rules,
                                    Client(api_key, init_ok), rules)
            /\ last' = NoRun
            /\ UNCHANGED <<chat_manager, created>>
    /\ UNCHANGED <<media_vars, threads, noted, app, api_key, rules, chat_history,
                   flagged_messages>>

\* The judge's reply (or failure) arrives; validate_message returns and the
\* handler records the message.  The failures drawn are Exception
\* subclasses, which validate_message catches.
ReplyArrives(outcome) ==
    /\ in_flight.active
    /\ \E used \in {RulesOfCall(in_flight, rules)} :
       \E call \in {ValidateMessage(app, in_flight.client, in_flight.message,
                                    used, outcome)} :
       \E am \in {AddMessage(app, chat_manager, DefaultUsername,
                             in_flight.message, "text", call.vr, NoMedia)} :
           /\ chat_manager' = am.cm
           /\ created' = created \cup {am.message.id}
           /\ last' = ReplyRun(in_flight.message, in_flight.started, rules, used,
                               in_flight.client, outcome, call, am.message)
    /\ in_flight' = NoCall
    /\ UNCHANGED <<media_vars, threads, noted, app, api_key, rules, chat_history,
                   flagged_messages, sends>>

NextInFlight ==
    \/ \E key \in ApiKeys : SetApiKey(key)
    \/ \E text \in RuleTexts : SaveRules(text)
    \/ ClearChatPressed
    \/ \E m \in MessageInputs, init_ok \in BOOLEAN : BeginSend(m, init_ok)
    \/ \E o \in JudgeOutcomesV12 : ReplyArrives(o)

SpecInFlight == Init /\ [][NextInFlight]_vars

ReplyHandled == last.op = "reply"

\* C21: a submission is judged with the rules that were saved when it
\* started.  Rules saved while its validation is in flight change neither
\* the rules it is judged with nor its verdict; a submission started later
\* is judged with the new rules.
C21_RulesCapturedAtStart ==
    /\ ReplyHandled =>
           /\ last.rules = last.started
           /\ last.call = ValidateMessage(app, last.client, last.message,
                                          last.started, last.outcome)
           /\ last.entry.status = Status(last.call.vr)
    /\ in_flight.active => in_flight.rules = in_flight.started

\* The rules were cleared while a rejected message was being judged.
C21_Witness ==
    /\ ReplyHandled /\ last.started = "no spam" /\ last.saved = ""
    /\ last.entry.status = "INVALID"

---------------------------------------------------------------------------
(* Two validate_message calls of one session (v1.1 / v1.2), compared.  An *)
(* earlier call is kept in `noted` with the ledger counter it left.         *)

MessagesCompared == {"hi", "yo"}

NotedCall(run, cm) ==
    [active |-> TRUE, message |-> run.message, rules |-> run.rules,
     client |-> run.client, outcome |-> run.outcome, vr |-> run.call.vr,
     counter |-> cm.message_counter]

\* Keep the validate_message call of the latest send for comparison with
\* the calls that follow.
Note ==
    /\ ~noted.active
    /\ last.op = "send"
    /\ ~last.call.raised
    /\ noted' = NotedCall(last, chat_manager)
    /\ UNCHANGED <<media_vars, threads, in_flight, app, api_key, rules,
                   chat_manager, chat_history, flagged_messages, created,
                   sends, last>>

NextCompared ==
    \/ \E key \in ApiKeys : SetApiKey(key)
    \/ \E text \in RuleTextsV12 : SaveRules(text)
    \/ ClearChatPressed
    \/ \E m \in MessagesCompared, init_ok \in BOOLEAN, o \in JudgeOutcomesV12 :
           Send(m, init_ok, o)
    \/ Note

SpecCompared == Init /\ [][NextCompared]_vars

\* The latest call had the inputs of the noted one: content, rules, judge
\* configuration and, where the judge was asked, the judge's response.
SameInputs ==
    /\ noted.active /\ SendHandled
    /\ last.message = noted.message
    /\ last.rules = noted.rules
    /\ last.client = noted.client
    /\ last.outcome = noted.outcome

---------------------------------------------------------------------------
(* v1.6 core_processing_engine.validate_message(api_key, rules, msg), as   *)
(* test_accuracy of v2.2 calls it: the return value is the message or the  *)
(* text "Invalid Message".                                                 *)

CoreMessages == {"hi", "Buy now and save big!", "Invalid Message"}

CoreReturned(value) == [raised |-> FALSE, cls |-> "", value |-> value]
CoreRaised(cls) == [raised |-> TRUE, cls |-> cls, value |-> ""]

\* core_processing_engine.validate_message over groq_response; no try block.
ValidateMessageCore(key, rules_, user_message, stream) ==
    IF stream.raises THEN CoreRaised(stream.cls)
    ELSE LET full_response == Upper(Strip(Join(stream.chunks)))
         IN  IF full_response = "VALID"
             THEN CoreReturned(user_message)
             ELSE CoreReturned("Invalid Message")

\* One iteration of test_accuracy: the call and what the test reads from it.
CoreRun(message, rules_, key, stream, call) ==
    [op |-> "validate", message |-> message, rules |-> rules_, key |-> key,
     stream |-> stream, call |-> call,
     accepted_by_test |-> ~call.raised /\ call.value = message]

InitCore ==
    /\ app = "v1.6 core"
    /\ api_key \in ApiKeys \ {""}
    /\ rules \in RuleTexts
    /\ chat_manager = NewChatManagerV16
    /\ chat_history = << >>
    /\ flagged_messages = << >>
    /\ created = {}
    /\ sends = 0
    /\ last = NoRun
    /\ NoMediaSession

\* result = validate_message(api_key, rules, msg)
CallValidateMessageCore(msg, stream) ==
    /\ app = "v1.6 core"
    /\ last' = CoreRun(msg, rules, api_key, stream,
                       ValidateMessageCore(api_key, rules, msg, stream))
    /\ UNCHANGED <<idle_vars, app, api_key, rules, chat_manager, chat_history,
                   flagged_messages, created, sends>>

NextCore == \E msg \in CoreMessages, st \in VerdictStreams :
                CallValidateMessageCore(msg, st)

SpecCore == InitCore /\ [][NextCore]_vars

\* The judge's reply, stripped and upper-cased, is the word VALID.
JudgeSaidValid(stream) ==
    ~stream.raises /\ Upper(Strip(Join(stream.chunks))) = "VALID"

\* C25: the value validate_message(api_key, rules, msg) returns equals msg
\* exactly when the judge's reply is VALID and differs from msg otherwise,
\* so `result == msg` holds iff the message was accepted.
C25_ResultIsMsgIffAccepted ==
    (last.op = "validate" /\ ~last.call.raised) =>
        ((last.call.value = last.message) <=> JudgeSaidValid(last.stream))

---------------------------------------------------------------------------
(* The rules editor of the sidebar (v1.1, v1.2, v1.6: the same code).  A   *)
(* script run receives the selected template and the text of the text     *)
(* area from the browser; only the Save Rules button stores the text.      *)

Templates == {"No Spam", "Custom"}

rule_templates(template) ==
    IF template = "No Spam"
    THEN "No spam, promotional content, or repetitive messages. No links without context."
    ELSE ""

\* What the text area can hold: its initial value or what the user typed.
AreaTexts(template, session_rules) ==
    {IF template # "Custom" THEN rule_templates(template) ELSE session_rules}
        \cup RuleTextsV12

\* Mutant: the editor returns the text of the text area.
RenderRulesEditorReturnsArea(session_rules, template, area, save_pressed) ==
    [session_rules |-> IF save_pressed THEN area ELSE session_rules,
     returned |-> area]

\* render_rules_editor: st.session_state.rules after the call and the value
\* returned to run(); session state always has the key 'rules'.
RenderRulesEditor(session_rules, template, area, save_pressed) ==
    LET saved == IF save_pressed THEN area ELSE session_rules
    IN  [session_rules |-> saved, returned |-> saved]

\* A script run that handled no Send press: the editor as it was rendered.
EditorRun(template, area, save_pressed, returned) ==
    [op |-> "editor", template |-> template, area |-> area,
     save_pressed |-> save_pressed, rules |-> returned]

\* A run that handled a Send press, with the editor as it was rendered.
WithEditor(run, template, area) ==
    [template |-> template, area |-> area] @@ run

InitEditor == Init \/ InitV16

\* A rerun caused by the template box or the text area, or by Save Rules.
RenderSidebar(template, area, save_pressed) ==
    /\ \E editor \in {RenderRulesEditor(rules, template, area, save_pressed)} :
           /\ rules' = editor.session_rules
           /\ last' = EditorRun(template, area, save_pressed, editor.returned)
    /\ UNCHANGED <<idle_vars, app, api_key, chat_manager, chat_history,
                   flagged_messages, created, sends>>

\* v1.1 / v1.2: Send pressed; the validator gets what the editor returned.
SendEdited(template, area, message_input, init_ok, outcome) ==
    /\ app \in {"v1.1", "v1.2"}
    /\ sends < MaxMessages
    /\ message_input # ""
    /\ sends' = sends + 1
    /\ \E editor \in {RenderRulesEditor(rules, template, area, FALSE)} :
       \E client \in {Client(api_key, init_ok)} :
       \E call \in {ValidateMessage(app, client, message_input,
                                    editor.returned, outcome)} :
       \E am \in {AddMessage(app, chat_manager, DefaultUsername,
                             message_input, "text", call.vr, NoMedia)} :
           /\ rules' = editor.session_rules
           /\ IF call.raised
              THEN /\ last' = WithEditor(SendRun(message_input, editor.returned,
                                  client, outcome, call, FALSE, NoMessage),
                                  template, area)
                   /\ UNCHANGED <<chat_manager, created>>
              ELSE /\ chat_manager' = am.cm
                   /\ created' = created \cup {am.message.id}
                   /\ last' = WithEditor(SendRun(message_input, editor.returned,
                                  client, outcome, call, TRUE, am.message),
                                  template, area)
    /\ UNCHANGED <<idle_vars, app, api_key, chat_history, flagged_messages>>

\* v1.6: Send pressed; main() checks and passes what the editor returned.
SendEditedV16(template, area, message_input, stream) ==
    /\ app = "v1.6"
    /\ sends < MaxMessages
    /\ message_input # ""
    /\ sends' = sends + 1
    /\ \E editor \in {RenderRulesEditor(rules, template, area, FALSE)} :
           /\ rules' = editor.session_rules
           /\ IF api_key = ""
              THEN /\ last' = WithEditor(SendRunV16(message_input, editor.returned,
                                  api_key, NoStream, "no_key", Verdict(FALSE)),
                                  template, area)
                   /\ UNCHANGED chat_manager
              ELSE IF Strip(editor.returned) = ""
              THEN /\ last' = WithEditor(SendRunV16(message_input, editor.returned,
                                  api_key, NoStream, "no_rules", Verdict(FALSE)),
                                  template, area)
                   /\ UNCHANGED chat_manager
              ELSE \E call \in {ValidateMessageV16(api_key, editor.returned,
                                                   message_input, stream)} :
                   IF call.raised
                   THEN /\ last' = WithEditor(SendRunV16(message_input,
                                       editor.returned, api_key, stream,
                                       "raised", call), template, area)
                        /\ UNCHANGED chat_manager
                   ELSE /\ last' = WithEditor(SendRunV16(message_input,
                                       editor.returned, api_key, stream,
                                       "recorded", call), template, area)
                        /\ chat_manager' =
                               AddMessageV16(chat_manager, DefaultUsername,
                                             message_input, call.is_valid)
    /\ UNCHANGED <<idle_vars, app, api_key, chat_history, flagged_messages, created>>

EditorStreams ==
    {Stream(<<PyStr("VALID")>>), Stream(<<PyStr("INVALID")>>),
     StreamFails("APITimeoutError")}

NextEditor ==
    \/ \E key \in ApiKeys : SetApiKey(key)
    \/ \E template \in Templates, save_pressed \in BOOLEAN :
       \E area \in AreaTexts(template, rules) :
           RenderSidebar(template, area, save_pressed)
    \/ ClearChatPressed
    \/ ClearChatPressedV16
    \/ \E template \in Templates, init_ok \in BOOLEAN, o \in JudgeOutcomesV12 :
       \E area \in AreaTexts(template, rules), m \in MessageInputs :
           SendEdited(template, area, m, init_ok, o)
    \/ \E template \in Templates, st \in EditorStreams :
       \E area \in AreaTexts(template, rules), m \in MessageInputs :
           SendEditedV16(template, area, m, st)

SpecEditor == InitEditor /\ [][NextEditor]_vars

\* C27: the rules used for validation change only when Save Rules is
\* pressed.  Editing the text area or selecting a template without saving
\* leaves the rules passed to the validator equal to the rules last saved
\* (initially the empty text).
C27_RulesChangeOnlyOnSave ==
    [][ /\ rules' # rules =>
               /\ last'.op = "editor" /\ last'.save_pressed
               /\ rules' = last'.area
        /\ (last'.op = "editor" /\ ~last'.save_pressed) => last'.rules = rules
        /\ last'.op = "send" => (last'.rules = rules /\ rules' = rules)
      ]_vars

\* A judged send while the text area held a template that was never saved.
C27_Witness ==
    /\ last.op = "send"
    /\ last.template = "No Spam" /\ last.area = rule_templates("No Spam")
    /\ last.rules = "no spam"
    /\ rules = "no spam"

---------------------------------------------------------------------------
(* v2.1 Model Custom Development: validate_message(rules, msg) over a      *)
(* causal language model run locally.  model.generate returns the prompt   *)
(* tokens followed by the new tokens, and local_model_response decodes     *)
(* the whole sequence.                                                     *)

DEFAULT_SYSTEM_PROMPT ==
    "You are a messages validator system. "
    \o "Only messages align to the below rules mark them as valid else mark as Invalid. "
    \o "*ONLY RESPOND WITH VALID OR INVALID WORD*"

LocalRules == {"", "no spam", " Be respectful and Kind. ", "Only educational messages."}

LocalMessages ==
    {"hi", "VALID", "Hey, meet me at 5 pm!", "What is the syllabus?"}

\* The texts the model generates after the prompt.
GeneratedTexts ==
    {"VALID", "valid", " Valid\n", "\nVALID", "INVALID", "", "VALID.", "Maybe"}

\* tokenizer(prompt) ... model.generate ... tokenizer.decode(output_ids[0]):
\* the decoded sequence is the prompt followed by the generated text.
local_model_response(rules_, user_message, generated) ==
    LET prompt == DEFAULT_SYSTEM_PROMPT
                    \o "\nRules: " \o rules_
                    \o "\nUser Message: " \o user_message
                    \o "\nOnly reply with VALID or INVALID in uppercase."
    IN  Strip(prompt \o generated)

\* v2.1 validate_message: (status, message).
ValidateMessageLocal(rules_, user_message, generated) ==
    LET full_response == Upper(local_model_response(rules_, user_message, generated))
    IN  IF full_response = "VALID"
        THEN [status |-> "VALID", message |-> user_message]
        ELSE [status |-> "INVALID", message |-> user_message]

\* One iteration of the test runner.
LocalRun(msg, rules_, generated, call) ==
    [op |-> "local", message |-> msg, rules |-> rules_,
     generated |-> generated, call |-> call]

InitLocal ==
    /\ app = "v2.1"
    /\ api_key = ""
    /\ rules \in LocalRules
    /\ chat_manager = NewChatManagerV16
    /\ chat_history = << >>
    /\ flagged_messages = << >>
    /\ created = {}
    /\ sends = 0
    /\ last = NoRun
    /\ NoMediaSession

\* status, message = validate_message(rules, msg)
CallValidateMessageLocal(msg, generated) ==
    /\ app = "v2.1"
    /\ last' = LocalRun(msg, rules, generated,
                        ValidateMessageLocal(rules, msg, generated))
    /\ UNCHANGED <<idle_vars, app, api_key, rules, chat_manager, chat_history,
                   flagged_messages, created, sends>>

NextLocal == \E msg \in LocalMessages, generated \in GeneratedTexts :
                 CallValidateMessageLocal(msg, generated)

SpecLocal == InitLocal /\ [][NextLocal]_vars

\* C29: validate_message(rules, msg) of the local-model engine returns the
\* status "VALID" whenever the text the model generates in reply is the
\* single word VALID (in any case, with surrounding whitespace) and
\* "INVALID" otherwise; the message it returns is always msg unchanged.
C29_LocalVerdictFollowsReply ==
    last.op = "local" =>
        /\ last.call.status =
               IF Upper(Strip(last.generated)) = "VALID" THEN "VALID" ELSE "INVALID"
        /\ last.call.message = last.message

=============================================================================
